---- MODULE Spec2Model ----
(***************************************************************************)
(* Mercury-230 polling client: the frame codec (mercury230/protocol.py),   *)
(* the exchange engine with bounded retries and the command sequences      *)
(* (mercury230/client.py), as a state machine.  One client performs one    *)
(* public call at a time; a call is a sequence of primitive commands, each *)
(* of which runs one _exchange; an _exchange is a loop of attempts, each   *)
(* attempt being discard, write, read, read, parse.                        *)
(*                                                                         *)
(* Specifications: Spec (the client on a transport that returns from every *)
(* call), FairSpec (the same under the scheduling of its thread), SpecWith *)
(* (the client in a with block, on a transport whose calls can raise),     *)
(* SpecLate (a line that holds replies back), SpecTcp (the TCP transport   *)
(* on its own), SpecCodec and SpecDecode (build_frame / parse_frame and    *)
(* _decode_energy_value applied to bounded arguments).                     *)
(***************************************************************************)
EXTENDS Integers, Sequences, FiniteSets, TLC

\* Largest retry count a client is constructed with (retries \in 0..MaxRetries).
MaxRetries == 2

\* Device addresses a client is constructed with.
Addresses == {1, 47}

VARIABLES
    address,     \* self.address, fixed at construction
    retries,     \* self.retries, fixed at construction
    pc,          \* position of the client's single thread of control
    call,        \* the public call in progress (or the last one)
    todo,        \* the primitive commands the call has still to run, in order
    acc,         \* values the call has collected from finished primitives
    command,     \* _exchange: its command argument
    tx,          \* _exchange: the request frame
    attempt,     \* _exchange: number of attempts completed (the loop counter)
    rx,          \* _exchange: bytes received by the current attempt
    last_rx,     \* _exchange: last_rx
    last_error,  \* _exchange: last_error ("" is None)
    ret,         \* the (response_cmd, payload) _exchange returned
    inbuf,       \* transport: bytes waiting in its input
    io,          \* history: transport operations of the current _exchange
    heard,       \* history: what the attempts of the current _exchange were
                 \* delivered, a set of "short", "badcrc", "framed"
    exlog,       \* history: (command, data) of every _exchange of the call
    returned,    \* history: number of _exchange calls of the call that returned
    outcome,     \* how the call ended: None while running, else ok or the error
    result,      \* the value the call returned
    stage,       \* a function applied on its own: how far the application is
    args,        \* a function applied on its own: its arguments
    wire,        \* a function applied on its own: the frame built or damaged
    value,       \* a function applied on its own: what it returned or raised
    sock,        \* TCP transport: bytes the socket holds ready for recv
    rx_buffer,   \* TCP transport: self._rx_buffer
    sent,        \* TCP transport: number of bytes that have reached the socket
    tpc,         \* TCP transport: the method being run and its position
    size,        \* TCP transport: read's size argument
    out,         \* TCP transport: read's local out
    given,       \* history: bytes the reads returned since the last reset
    taken,       \* history: bytes recv took from the socket since the last reset
    mark,        \* history: value of sent when the last reset was called
    last,        \* history: the last method that returned: its name, the
                 \* bytes it returned, its size argument or the count it returned
    scope,       \* where the program is about the with block of the client
    handle,      \* the transport handle the constructor opened: open or closed
    closes,      \* history: number of close calls on the transport handle
    inflight,    \* line: a reply of the meter that has not yet arrived
    stale_in,    \* history: inbuf holds bytes of a reply to an earlier request
    stale_rx     \* history: rx holds bytes of a reply to an earlier request

\* The client and its transport.
clientVars == <<address, retries, pc, call, todo, acc, command, tx, attempt, rx,
                last_rx, last_error, ret, inbuf, io, heard, exlog, returned,
                outcome, result>>

\* The application of one function to bounded arguments.
pureVars == <<stage, args, wire, value>>

\* The TCP transport on its own, with the socket it reads.
tcpVars == <<sock, rx_buffer, sent, tpc, size, out, given, taken, mark, last>>

\* The with block around the client and the transport handle.
scopeVars == <<scope, handle, closes>>

\* Replies delayed on the line.
lateVars == <<inflight, stale_in, stale_rx>>

\* Everything that is not the client's.
otherVars == <<pureVars, tcpVars, scopeVars, lateVars>>

\* Everything but the function applied on its own.
notPure == <<clientVars, tcpVars, scopeVars, lateVars>>

\* Everything but the TCP transport on its own.
notTcp == <<clientVars, pureVars, scopeVars, lateVars>>

vars == <<clientVars, otherVars>>

exchangeVars == <<command, tx, attempt, rx, last_rx, last_error>>

----------------------------------------------------------------------------
(* Bytes *)

Take(s, n) == SubSeq(s, 1, IF n < Len(s) THEN n ELSE Len(s))

Drop(s, n) == SubSeq(s, (IF n < Len(s) THEN n ELSE Len(s)) + 1, Len(s))

\* a ^ b on non-negative integers.  (Functions, so that TLC evaluates the
\* arguments once, before the application.)
BitXor[a \in Nat, b \in Nat] ==
    IF a = 0 THEN b
    ELSE IF b = 0 THEN a
    ELSE ((a + b) % 2) + 2 * BitXor[a \div 2, b \div 2]

HexDigits == <<"0", "1", "2", "3", "4", "5", "6", "7",
               "8", "9", "a", "b", "c", "d", "e", "f">>

\* bytes.hex(' '): two lower-case hex digits per byte.
hex(bytes) ==
    [i \in 1..Len(bytes) |->
        <<HexDigits[(bytes[i] \div 16) + 1], HexDigits[(bytes[i] % 16) + 1]>>]

----------------------------------------------------------------------------
(* protocol.py *)

\* for _ in range(8): crc = (crc >> 1) ^ 0xA001 if crc & 1 else crc >> 1
crc_bits[crc \in Nat, n \in Nat] ==
    IF n = 0 THEN crc
    ELSE crc_bits[IF crc % 2 = 1 THEN BitXor[crc \div 2, 40961] ELSE crc \div 2,
                  n - 1]

\* for byte in data: crc ^= byte; the eight shifts
crc_bytes[crc \in Nat, data \in Seq(Nat)] ==
    IF data = <<>> THEN crc
    ELSE crc_bytes[crc_bits[BitXor[crc, Head(data)], 8], Tail(data)]

\* Mutant: the loop starts at the second byte, for byte in data[1:].
crc16_modbus_skip_first(data) == crc_bytes[65535, Tail(data)] % 65536

crc16_modbus(data) == crc_bytes[65535, data] % 65536

\* Mutant: crc.to_bytes(2, "big")
to_bytes_big(crc) == <<crc \div 256, crc % 256>>

\* crc.to_bytes(2, "little")
to_bytes_little(crc) == <<crc % 256, crc \div 256>>

\* int.from_bytes(b, "little") of two bytes
from_bytes_little(b) == b[1] + 256 * b[2]

build_frame(addr, cmd, data) ==
    IF ~(0 <= addr /\ addr <= 255)
    THEN [ok |-> FALSE, error |-> "address must be 0..255", frame |-> <<>>]
    ELSE IF ~(0 <= cmd /\ cmd <= 255)
    THEN [ok |-> FALSE, error |-> "command must be 0..255", frame |-> <<>>]
    ELSE LET payload == <<addr, cmd>> \o data
         IN  [ok |-> TRUE, error |-> "",
              frame |-> payload \o to_bytes_little(crc16_modbus(payload))]

\* Mutant: the leading address byte is not compared with expected_address.
parse_frame_any_address(frame, expected_address) ==
    IF Len(frame) < 4
    THEN [ok |-> FALSE, error |-> "frame is too short",
          address |-> 0, command |-> 0, payload |-> <<>>]
    ELSE IF from_bytes_little(SubSeq(frame, Len(frame) - 1, Len(frame)))
                # crc16_modbus(SubSeq(frame, 1, Len(frame) - 2))
    THEN [ok |-> FALSE, error |-> "bad crc",
          address |-> 0, command |-> 0, payload |-> <<>>]
    ELSE [ok |-> TRUE, error |-> "",
          address |-> frame[1], command |-> frame[2],
          payload |-> SubSeq(frame, 3, Len(frame) - 2)]

\* expected_address = -1 stands for None.
parse_frame(frame, expected_address) ==
    IF Len(frame) < 4
    THEN [ok |-> FALSE, error |-> "frame is too short",
          address |-> 0, command |-> 0, payload |-> <<>>]
    ELSE LET body == SubSeq(frame, 1, Len(frame) - 2)
             received_crc == from_bytes_little(SubSeq(frame, Len(frame) - 1, Len(frame)))
             calculated_crc == crc16_modbus(body)
         IN  IF received_crc # calculated_crc
             THEN [ok |-> FALSE, error |-> "bad crc",
                   address |-> 0, command |-> 0, payload |-> <<>>]
             ELSE IF expected_address # -1 /\ frame[1] # expected_address
             THEN [ok |-> FALSE, error |-> "unexpected address",
                   address |-> 0, command |-> 0, payload |-> <<>>]
             ELSE [ok |-> TRUE, error |-> "",
                   address |-> frame[1], command |-> frame[2],
                   payload |-> SubSeq(frame, 3, Len(frame) - 2)]

----------------------------------------------------------------------------
(* client.py: the command layer *)

\* A call of a method of the client: its name and arguments.
Cmd(op, x, y, data) == [op |-> op, x |-> x, y |-> y, data |-> data]

Composite == {"read_passport", "read_energy_from_reset",
              "read_energy_for_month", "read_energy_all_months"}

test_link == Cmd("test_link", 0, 0, <<>>)

open_session(access_level, password) == Cmd("open_session", access_level, 0, password)

read_network_address == Cmd("read_network_address", 0, 0, <<>>)

read_info_block == Cmd("read_info_block", 0, 0, <<>>)

read_software_version == Cmd("read_software_version", 0, 0, <<>>)

read_transform_ratios == Cmd("read_transform_ratios", 0, 0, <<>>)

read_energy_register(group, index) == Cmd("read_energy_register", group, index, <<>>)

exchange(cmd, data) == Cmd("exchange", cmd, 0, data)

\* Mutant: the session is opened before the link test.
read_passport_body_open_first ==
    <<open_session(2, <<2, 2, 2, 2, 2, 2>>),
      test_link,
      read_network_address,
      read_info_block,
      read_software_version,
      read_transform_ratios>>

\* The statements of read_passport that run an exchange, in program order.
read_passport_body ==
    <<test_link,
      open_session(2, <<2, 2, 2, 2, 2, 2>>),
      read_network_address,
      read_info_block,
      read_software_version,
      read_transform_ratios>>

\* Mutant: the archive is unlocked before the session is opened.
prepare_energy_session_unlock_first ==
    <<exchange(8, <<18>>),
      open_session(1, <<1, 1, 1, 1, 1, 1>>)>>

prepare_energy_session ==
    <<open_session(1, <<1, 1, 1, 1, 1, 1>>),
      exchange(8, <<18>>)>>

\* for idx, label in labels.items(): self._read_energy_register(group, idx)
read_energy_profile_group(group) ==
    [i \in 1..6 |-> read_energy_register(group, i - 1)]

RECURSIVE months_from_prepared(_)
\* Mutant: every month prepares the session again.
months_from_prepared(month) ==
    IF month >= 13 THEN <<>>
    ELSE (IF month = 1 THEN <<>> ELSE prepare_energy_session)
         \o read_energy_profile_group(48 + month) \o months_from_prepared(month + 1)

RECURSIVE months_from(_)
\* for month in range(month, 13): self._read_energy_profile_group(0x30 + month)
months_from(month) ==
    IF month >= 13 THEN <<>>
    ELSE read_energy_profile_group(48 + month) \o months_from(month + 1)

\* Mutant: the month is not checked.
PreCheck_none(c) == ""

\* What a public method checks before it does anything else.
PreCheck(c) ==
    IF c.op = "read_energy_for_month" /\ ~(1 <= c.x /\ c.x <= 12)
    THEN "month must be in range 1..12"
    ELSE ""

\* The primitive commands a call runs, in order, when none of them fails.
Body(c) ==
    CASE c.op = "read_passport" -> read_passport_body
      [] c.op = "read_energy_from_reset" ->
            prepare_energy_session \o read_energy_profile_group(0)
      [] c.op = "read_energy_for_month" ->
            prepare_energy_session \o read_energy_profile_group(48 + c.x)
      [] c.op = "read_energy_all_months" ->
            prepare_energy_session \o months_from(1)
      [] OTHER -> <<c>>

\* What a primitive command checks before it calls _exchange ("" = passes).
ArgError(c) ==
    CASE c.op = "open_session" ->
            IF Len(c.data) # 6 THEN "password must contain exactly 6 bytes"
            ELSE IF ~(0 <= c.x /\ c.x <= 255) THEN "bytes must be in range(0, 256)"
            ELSE ""
      [] c.op = "read_energy_register" ->
            IF ~(0 <= c.x /\ c.x <= 255) THEN "group must be 0..255"
            ELSE IF ~(0 <= c.y /\ c.y <= 255) THEN "index must be 0..255"
            ELSE ""
      [] OTHER -> ""

\* The (command, data) a primitive command passes to _exchange.
Request(c) ==
    CASE c.op = "test_link" -> [command |-> 0, data |-> <<>>]
      [] c.op = "open_session" -> [command |-> 1, data |-> <<c.x>> \o c.data]
      [] c.op = "read_network_address" -> [command |-> 8, data |-> <<5>>]
      [] c.op = "read_info_block" -> [command |-> 8, data |-> <<0>>]
      [] c.op = "read_software_version" -> [command |-> 8, data |-> <<3>>]
      [] c.op = "read_transform_ratios" -> [command |-> 8, data |-> <<2>>]
      [] c.op = "read_energy_register" -> [command |-> 5, data |-> <<c.x, c.y>>]
      [] OTHER -> [command |-> c.x, data |-> c.data]

\* Mutant: the tariff-2 rule applies whatever the last byte of the block is.
decode_energy_value_any_b3(response_cmd, block) ==
    IF Len(block) # 4
    THEN [ok |-> FALSE, error |-> "energy block must contain 4 bytes", value |-> 0]
    ELSE IF response_cmd = 0 /\ block[1] = 0 /\ block[2] = 0
    THEN [ok |-> TRUE, error |-> "", value |-> block[4] * 256 + block[3]]
    ELSE [ok |-> TRUE, error |-> "",
          value |-> response_cmd * 65536 + block[3] * 256 + block[2]]

\* _decode_energy_value; its arguments are bytes, so a shift is a
\* multiplication and the or of shifted bytes is their sum.
decode_energy_value(response_cmd, block) ==
    IF Len(block) # 4
    THEN [ok |-> FALSE, error |-> "energy block must contain 4 bytes", value |-> 0]
    ELSE LET b0 == block[1]
             b1 == block[2]
             b2 == block[3]
             b3 == block[4]
         IN  IF b0 = 0 /\ b1 = 0 /\ b2 = 0 /\ b3 = 0 /\ response_cmd = 0
             THEN [ok |-> TRUE, error |-> "", value |-> 0]
             ELSE IF response_cmd = 0 /\ b0 = 0 /\ b1 = 0 /\ b3 # 255
             THEN [ok |-> TRUE, error |-> "", value |-> b3 * 256 + b2]
             ELSE [ok |-> TRUE, error |-> "",
                   value |-> response_cmd * 65536 + b2 * 256 + b1]

\* The MercuryProtocolError a primitive command raises on the payload
\* _exchange returned ("" = none).
PayloadError(c, payload) ==
    CASE c.op = "read_network_address" ->
            IF payload = <<>> THEN "empty payload for network address" ELSE ""
      [] c.op = "read_energy_register" ->
            IF Len(payload) < 12 THEN "short energy payload" ELSE ""
      [] OTHER -> ""

\* The value a primitive command returns, as a sequence of integers
\* (None is <<>>, True is <<1>>).
Value(c, response_cmd, payload) ==
    CASE c.op = "test_link" -> <<1>>
      [] c.op = "open_session" -> <<>>
      [] c.op = "read_network_address" -> <<payload[1]>>
      [] c.op = "read_info_block" -> <<response_cmd>> \o payload
      [] c.op = "read_software_version" ->
            IF Len(payload) < 3
            THEN IF Len(payload) = 2 THEN <<response_cmd, payload[1], payload[2]>>
                 ELSE <<>>
            ELSE <<payload[1], payload[2], payload[3]>>
      [] c.op = "read_transform_ratios" ->
            IF Len(payload) < 3 THEN <<>>
            ELSE <<from_bytes_little(SubSeq(payload, 1, 2)), payload[3]>>
      [] c.op = "read_energy_register" ->
            <<decode_energy_value(response_cmd, SubSeq(payload, 1, 4)).value,
              decode_energy_value(response_cmd, SubSeq(payload, 9, 12)).value>>
      [] OTHER -> <<response_cmd>> \o payload

EnergyFromReset(regs) ==
    [active_wh |-> [i \in 1..6 |-> regs[i][1]],
     reactive_varh |-> [i \in 1..6 |-> regs[i][2]]]

\* The value a call returns once every primitive command of it has returned.
Assemble(c, got) ==
    CASE c.op = "read_passport" ->
            [kind |-> "PassportData",
             value |-> [address |-> got[3][1],
                        info |-> got[4],
                        software_version |-> got[5],
                        ratios |-> got[6]]]
      [] c.op \in {"read_energy_from_reset", "read_energy_for_month"} ->
            [kind |-> "EnergyFromReset",
             value |-> EnergyFromReset(SubSeq(got, 3, 8))]
      [] c.op = "read_energy_all_months" ->
            [kind |-> "dict",
             value |-> [m \in 1..12 |->
                           EnergyFromReset(SubSeq(got, 6 * m - 3, 6 * m + 2))]]
      [] OTHER -> [kind |-> "value", value |-> got[1]]

NoResult == [kind |-> "None", value |-> <<>>]

----------------------------------------------------------------------------
(* The meter and the line: what a transport read can deliver *)

\* The meter's answer to a request frame: (response byte, payload).
MeterAnswer(request) ==
    LET cmd == request[2]
        data == SubSeq(request, 3, Len(request) - 2)
    IN  CASE cmd = 8 /\ data = <<5>> -> <<0, <<request[1]>>>>
          [] cmd = 8 /\ data = <<0>> -> <<10, <<20, 30, 40, 15, 6, 24>>>>
          [] cmd = 8 /\ data = <<3>> -> <<2, <<2, 84>>>>
          [] cmd = 8 /\ data = <<2>> -> <<0, <<60, 0, 120, 49>>>>
          [] cmd = 5 -> <<5, <<170, 17, 34, 187, 0, 0, 0, 0, 0, 0, 16, 32>>>>
          [] OTHER -> <<0, <<>>>>

\* Every answer the meter gives.
Answers ==
    {<<0, <<a>>>> : a \in Addresses}
    \cup {<<10, <<20, 30, 40, 15, 6, 24>>>>, <<2, <<2, 84>>>>, <<0, <<60, 0, 120, 49>>>>,
          <<5, <<170, 17, 34, 187, 0, 0, 0, 0, 0, 0, 16, 32>>>>, <<0, <<>>>>}

\* The meter's frames, built once.
AnswerFrame ==
    [a \in Addresses |-> [ans \in Answers |-> build_frame(a, ans[1], ans[2]).frame]]

\* A frame with the low checksum byte damaged on the line.
Corrupted(frame) ==
    [frame EXCEPT ![Len(frame) - 1] = BitXor[frame[Len(frame) - 1], 1]]

CorruptedFrame ==
    [a \in Addresses |-> Corrupted(build_frame(a, 0, <<0>>).frame)]

OtherAddress(addr) == CHOOSE a \in Addresses : a # addr

\* What one attempt can receive after writing `request`, with what it is:
\* "short" (fewer than 4 bytes), "badcrc" (4 bytes or more, checksum wrong),
\* "framed" (4 bytes or more, checksum right).
Replies(addr, request) ==
    LET good == AnswerFrame[addr][MeterAnswer(request)]
    IN  {[bytes |-> <<>>, is |-> "short"],
         [bytes |-> Take(good, 3), is |-> "short"],
         [bytes |-> good, is |-> "framed"],
         [bytes |-> AnswerFrame[addr][<<0, <<>>>>], is |-> "framed"],
         [bytes |-> AnswerFrame[OtherAddress(addr)][<<0, <<>>>>], is |-> "framed"],
         [bytes |-> CorruptedFrame[addr], is |-> "badcrc"]}

----------------------------------------------------------------------------
(* client.py: the exchange engine *)

\* How a call ends; kind "None" while it runs.
Outcome(kind, reason, raw, attempts) ==
    [kind |-> kind, reason |-> reason, raw |-> raw, attempts |-> attempts]

Running == Outcome("None", "", <<>>, 0)

\* Mutant: the loop runs range(self.retries).
attempt_limit_short(r) == r

\* Mutant: the loop runs range(self.retries + 2).
attempt_limit_long(r) == r + 2

\* for _ in range(self.retries + 1)
attempt_limit(r) == r + 1

\* if len(rx) < 4: continue
too_short(bytes) == Len(bytes) < 4

\* Mutant: only an empty last_rx counts as no response.
exchange_failure_empty_only(lrx, lerr, r) ==
    IF Len(lrx) = 0 THEN Outcome("NoResponse", "", <<>>, r + 1)
    ELSE IF lerr # "" THEN Outcome("TransportError", lerr, hex(lrx), 0)
    ELSE Outcome("TransportError", "", hex(lrx), 0)

\* What _exchange raises after its last attempt.
exchange_failure(lrx, lerr, r) ==
    IF Len(lrx) < 4 THEN Outcome("NoResponse", "", <<>>, r + 1)
    ELSE IF lerr # "" THEN Outcome("TransportError", lerr, hex(lrx), 0)
    ELSE Outcome("TransportError", "", hex(lrx), 0)

\* The arguments the client's methods are called with.
Calls ==
    {Cmd(op, 0, 0, <<>>) :
        op \in {"read_passport", "read_energy_from_reset", "read_energy_all_months",
                "test_link", "read_network_address", "read_info_block",
                "read_software_version", "read_transform_ratios"}}
    \cup {Cmd("read_energy_for_month", m, 0, <<>>) : m \in {0, 1, 12, 13}}
    \cup {open_session(l, p) :
            l \in {1, 2}, p \in {<<1, 1, 1, 1, 1, 1>>, <<2, 2, 2, 2, 2>>}}
    \cup {read_energy_register(g, i) : g \in {-1, 0, 256}, i \in {5, 256}}
    \cup {exchange(c, d) : c \in {-1, 8, 256}, d \in {<<18>>}}

ClientInit ==
    /\ address \in Addresses
    /\ retries \in 0..MaxRetries
    /\ pc = "idle"
    /\ call = test_link
    /\ todo = <<>>
    /\ acc = <<>>
    /\ command = 0
    /\ tx = <<>>
    /\ attempt = 0
    /\ rx = <<>>
    /\ last_rx = <<>>
    /\ last_error = ""
    /\ ret = <<0, <<>>>>
    /\ inbuf = <<>>
    /\ io = <<>>
    /\ heard = {}
    /\ exlog = <<>>
    /\ returned = 0
    /\ outcome = Running
    /\ result = NoResult

\* No function is being applied on its own.
PureOff ==
    /\ stage = "off"
    /\ args = <<>>
    /\ wire = <<>>
    /\ value = <<>>

\* The TCP transport right after its construction, nothing received.
TcpInit ==
    /\ sock = <<>>
    /\ rx_buffer = <<>>
    /\ sent = 0
    /\ tpc = "idle"
    /\ size = 0
    /\ out = <<>>
    /\ given = <<>>
    /\ taken = <<>>
    /\ mark = 0
    /\ last = [op |-> "none", ret |-> <<>>, n |-> 0]

\* The constructor has opened the transport; no with block was entered.
Constructed ==
    /\ scope = "constructed"
    /\ handle = "open"
    /\ closes = 0

\* Nothing is on its way on the line.
LineQuiet ==
    /\ inflight = <<>>
    /\ stale_in = FALSE
    /\ stale_rx = FALSE

\* A client has been constructed and nothing else goes on.
Init == ClientInit /\ PureOff /\ TcpInit /\ Constructed /\ LineQuiet

\* A public method is called; it raises at once when its own check fails.
Call ==
    /\ pc \in {"idle", "done"}
    /\ \E c \in Calls :
        /\ call' = c
        /\ IF PreCheck(c) # ""
           THEN /\ outcome' = Outcome("InvalidArgument", PreCheck(c), <<>>, 0)
                /\ todo' = <<>>
                /\ pc' = "done"
           ELSE /\ outcome' = Running
                /\ todo' = Body(c)
                /\ pc' = "next"
    /\ acc' = <<>>
    /\ command' = 0
    /\ tx' = <<>>
    /\ attempt' = 0
    /\ rx' = <<>>
    /\ last_rx' = <<>>
    /\ last_error' = ""
    /\ ret' = <<0, <<>>>>
    /\ io' = <<>>
    /\ heard' = {}
    /\ exlog' = <<>>
    /\ returned' = 0
    /\ result' = NoResult
    /\ UNCHANGED <<address, retries, inbuf>>

\* The next primitive command starts: its argument checks, then the head of
\* _exchange (build_frame and the two locals).
Begin ==
    /\ pc = "next"
    /\ todo # <<>>
    /\ LET c == Head(todo)
           req == Request(c)
           built == build_frame(address, req.command, req.data)
       IN  IF ArgError(c) # ""
           THEN /\ outcome' = Outcome("InvalidArgument", ArgError(c), <<>>, 0)
                /\ pc' = "done"
                /\ UNCHANGED <<exchangeVars, io, heard, exlog>>
           ELSE IF ~built.ok
           THEN /\ outcome' = Outcome("InvalidArgument", built.error, <<>>, 0)
                /\ pc' = "done"
                /\ UNCHANGED <<exchangeVars, io, heard, exlog>>
           ELSE /\ command' = req.command
                /\ tx' = built.frame
                /\ last_rx' = <<>>
                /\ last_error' = ""
                /\ attempt' = 0
                /\ rx' = <<>>
                /\ io' = <<>>
                /\ heard' = {}
                /\ exlog' = Append(exlog, <<req.command, req.data>>)
                /\ pc' = "discard"
                /\ UNCHANGED outcome
    /\ UNCHANGED <<address, retries, call, todo, acc, ret, inbuf, returned, result>>

\* self._io.reset_input_buffer()
Discard ==
    /\ pc = "discard"
    /\ inbuf' = <<>>
    /\ io' = Append(io, "discard")
    /\ pc' = "write"
    /\ UNCHANGED <<address, retries, call, todo, acc, exchangeVars, ret, heard,
                   exlog, returned, outcome, result>>

\* self._io.write(tx); what comes back on the line is the device's choice.
Write ==
    /\ pc = "write"
    /\ \E r \in Replies(address, tx) :
        /\ inbuf' = inbuf \o r.bytes
        /\ heard' = heard \cup {r.is}
    /\ io' = Append(io, "write")
    /\ pc' = "read"
    /\ UNCHANGED <<address, retries, call, todo, acc, exchangeVars, ret,
                   exlog, returned, outcome, result>>

\* rx = self._io.read(min_response), min_response = 4
ReadHead ==
    /\ pc = "read"
    /\ rx' = Take(inbuf, 4)
    /\ inbuf' = Drop(inbuf, 4)
    /\ io' = Append(io, "read")
    /\ pc' = "tail"
    /\ UNCHANGED <<address, retries, call, todo, acc, command, tx, attempt,
                   last_rx, last_error, ret, heard, exlog, returned, outcome,
                   result>>

\* rx += self._io.read(self._io.in_waiting); last_rx = rx
ReadTail ==
    /\ pc = "tail"
    /\ LET in_waiting == Len(inbuf)
       IN  /\ rx' = rx \o Take(inbuf, in_waiting)
           /\ inbuf' = Drop(inbuf, in_waiting)
    /\ last_rx' = rx'
    /\ io' = Append(io, "read")
    /\ pc' = "parse"
    /\ UNCHANGED <<address, retries, call, todo, acc, command, tx, attempt,
                   last_error, ret, heard, exlog, returned, outcome, result>>

\* Mutant: the input is discarded once, before the loop; a retry starts with
\* its write.
after_attempt_no_discard(n, r) == IF n < attempt_limit(r) THEN "write" ELSE "raise"

\* continue: the loop goes on to its next attempt, or ends.
after_attempt(n, r) == IF n < attempt_limit(r) THEN "discard" ELSE "raise"

\* if len(rx) < 4: continue
Silent ==
    /\ pc = "parse"
    /\ too_short(rx)
    /\ attempt' = attempt + 1
    /\ pc' = after_attempt(attempt + 1, retries)
    /\ UNCHANGED <<address, retries, call, todo, acc, command, tx, rx, last_rx,
                   last_error, ret, inbuf, io, heard, exlog, returned, outcome,
                   result>>

\* parse_frame succeeded: return response_cmd, payload
ParseOk ==
    /\ pc = "parse"
    /\ ~too_short(rx)
    /\ LET p == parse_frame(rx, address)
       IN  /\ p.ok
           /\ ret' = <<p.command, p.payload>>
    /\ pc' = "returned"
    /\ UNCHANGED <<address, retries, call, todo, acc, exchangeVars, inbuf, io,
                   heard, exlog, returned, outcome, result>>

\* Mutant: except MercuryProtocolError: continue, the error is not kept.
ParseError_unrecorded ==
    /\ pc = "parse"
    /\ ~too_short(rx)
    /\ ~parse_frame(rx, address).ok
    /\ attempt' = attempt + 1
    /\ pc' = after_attempt(attempt + 1, retries)
    /\ UNCHANGED <<address, retries, call, todo, acc, command, tx, rx, last_rx,
                   last_error, ret, inbuf, io, heard, exlog, returned, outcome,
                   result>>

\* except MercuryProtocolError as exc: last_error = exc; continue
ParseError ==
    /\ pc = "parse"
    /\ ~too_short(rx)
    /\ LET p == parse_frame(rx, address)
       IN  /\ ~p.ok
           /\ last_error' = p.error
    /\ attempt' = attempt + 1
    /\ pc' = after_attempt(attempt + 1, retries)
    /\ UNCHANGED <<address, retries, call, todo, acc, command, tx, rx, last_rx,
                   ret, inbuf, io, heard, exlog, returned, outcome, result>>

\* Mutant: the command layer swallows the failure of _exchange and goes on
\* with the next command of the sequence, the failed one yielding None.
Raise_swallowed ==
    /\ pc = "raise"
    /\ acc' = Append(acc, <<>>)
    /\ todo' = Tail(todo)
    /\ pc' = "next"
    /\ UNCHANGED <<address, retries, call, exchangeVars, ret, inbuf, io, heard,
                   exlog, returned, outcome, result>>

\* The loop is over with nothing returned: _exchange raises, and the
\* exception leaves the call.
Raise ==
    /\ pc = "raise"
    /\ outcome' = exchange_failure(last_rx, last_error, retries)
    /\ pc' = "done"
    /\ UNCHANGED <<address, retries, call, todo, acc, exchangeVars, ret, inbuf,
                   io, heard, exlog, returned, result>>

\* _exchange returned to the primitive command, which checks the payload and
\* returns its value, or raises MercuryProtocolError.
Handle ==
    /\ pc = "returned"
    /\ LET c == Head(todo)
       IN  IF PayloadError(c, ret[2]) # ""
           THEN /\ outcome' = Outcome("ProtocolError", PayloadError(c, ret[2]), <<>>, 0)
                /\ pc' = "done"
                /\ UNCHANGED <<todo, acc>>
           ELSE /\ acc' = Append(acc, Value(c, ret[1], ret[2]))
                /\ todo' = Tail(todo)
                /\ pc' = "next"
                /\ UNCHANGED outcome
    /\ returned' = returned + 1
    /\ UNCHANGED <<address, retries, call, exchangeVars, ret, inbuf, io, heard,
                   exlog, result>>

\* Every primitive command of the call has returned: the call returns.
Finish ==
    /\ pc = "next"
    /\ todo = <<>>
    /\ result' = Assemble(call, acc)
    /\ outcome' = Outcome("ok", "", <<>>, 0)
    /\ pc' = "done"
    /\ UNCHANGED <<address, retries, call, todo, acc, exchangeVars, ret, inbuf,
                   io, heard, exlog, returned>>

\* One step of the client; nothing else goes on.
Next ==
    \/ Call /\ UNCHANGED otherVars
    \/ Begin /\ UNCHANGED otherVars
    \/ Discard /\ UNCHANGED otherVars
    \/ Write /\ UNCHANGED otherVars
    \/ ReadHead /\ UNCHANGED otherVars
    \/ ReadTail /\ UNCHANGED otherVars
    \/ Silent /\ UNCHANGED otherVars
    \/ ParseOk /\ UNCHANGED otherVars
    \/ ParseError /\ UNCHANGED otherVars
    \/ Raise /\ UNCHANGED otherVars
    \/ Handle /\ UNCHANGED otherVars
    \/ Finish /\ UNCHANGED otherVars

Spec == Init /\ [][Next]_vars

TypeOK ==
    /\ pc \in {"idle", "next", "discard", "write", "read", "tail", "parse",
               "raise", "returned", "done"}
    /\ attempt \in 0..(retries + 1)
    /\ outcome.kind \in {"None", "ok", "InvalidArgument", "ProtocolError",
                         "NoResponse", "TransportError"}

----------------------------------------------------------------------------
(* Properties *)

\* Number of writes of the request in the current _exchange.
Writes == Cardinality({i \in DOMAIN io : io[i] = "write"})

\* Every attempt of the current _exchange so far received `what`.
AllHeard(what) == heard = {what}

\* C1: when every attempt receives fewer than 4 bytes, _exchange never
\* returns, writes the request exactly retries+1 times and then fails with
\* NoResponse, never with a general TransportError.
C1_SilenceIsNoResponse ==
    AllHeard("short") =>
        /\ pc \in {"read", "tail", "parse", "discard", "write", "raise", "done"}
        /\ Writes <= retries + 1
        /\ pc \in {"raise", "done"} => Writes = retries + 1
        /\ pc = "done" => /\ outcome.kind = "NoResponse"
                          /\ outcome.attempts = retries + 1

C1_Witness ==
    /\ pc = "done"
    /\ AllHeard("short")
    /\ outcome.kind = "NoResponse"
    /\ Len(last_rx) = 3
    /\ Writes = 3

\* C2: when every attempt receives a frame of 4 bytes or more with a wrong
\* checksum, _exchange never returns, writes the request exactly retries+1
\* times and then fails with a general TransportError whose message holds the
\* bytes of the last attempt in hex and the parse failure.
C2_BadChecksumIsTransportError ==
    AllHeard("badcrc") =>
        /\ pc \in {"read", "tail", "parse", "discard", "write", "raise", "done"}
        /\ Writes <= retries + 1
        /\ pc \in {"raise", "done"} => Writes = retries + 1
        /\ pc = "done" => /\ outcome.kind = "TransportError"
                          /\ outcome.raw = hex(rx)
                          /\ Len(outcome.raw) >= 4
                          /\ outcome.reason = "bad crc"

C2_Witness ==
    /\ pc = "done"
    /\ AllHeard("badcrc")
    /\ outcome.kind = "TransportError"
    /\ Len(outcome.raw) = 5
    /\ Writes = 3

\* C3 (as claimed): _exchange fails with NoResponse only if every attempt
\* received fewer than 4 bytes; with at least one attempt of 4 bytes or more
\* and none parsed, the failure is a general TransportError.
C3_NoResponseOnlyIfAllSilent ==
    (pc = "done" /\ outcome.kind \in {"NoResponse", "TransportError"}) =>
        /\ outcome.kind = "NoResponse" => AllHeard("short")
        /\ (\E h \in heard : h # "short") => outcome.kind = "TransportError"

\* The claim's notion of a valid frame, for a client at `addr`.
ValidFrame(bytes, addr) ==
    /\ Len(bytes) >= 4
    /\ crc16_modbus(SubSeq(bytes, 1, Len(bytes) - 2))
          = bytes[Len(bytes) - 1] + 256 * bytes[Len(bytes)]
    /\ bytes[1] = addr

\* C4: an attempt ends the exchange exactly when its bytes are a valid frame;
\* then (response command, payload) of that frame is returned, whatever the
\* earlier attempts were and however many retries remain, and the exchange
\* performs no further discard, write or read.
C4_FirstValidFrameReturns ==
    [][/\ (pc = "parse" /\ ValidFrame(rx, address)) =>
            /\ pc' = "returned"
            /\ ret' = <<rx[2], SubSeq(rx, 3, Len(rx) - 2)>>
            /\ UNCHANGED <<io, inbuf, attempt>>
       /\ (pc = "parse" /\ pc' = "returned") => ValidFrame(rx, address)
       /\ pc = "returned" => (pc' \in {"next", "done"} /\ UNCHANGED <<io, inbuf>>)
      ]_vars

C4_Witness ==
    /\ pc = "returned"
    /\ attempt = 1
    /\ retries = 2
    /\ heard = {"badcrc", "framed"}
    /\ Len(ret[2]) = 12
    /\ Len(io) = 8

\* The exchanges of read_energy_all_months, by arithmetic on the position.
AllMonthsExchanges ==
    <<<<1, <<1, 1, 1, 1, 1, 1, 1>>>>, <<8, <<18>>>>>>
    \o [k \in 1..72 |-> <<5, <<49 + ((k - 1) \div 6), (k - 1) % 6>>>>]

IsPrefix(s, t) == Len(s) <= Len(t) /\ s = SubSeq(t, 1, Len(s))

\* C5: read_energy_all_months runs open_session(0x01, 01 x 6), unlock 0x08/0x12
\* and then the 72 register exchanges, groups 0x31..0x3C ascending, indices
\* 0..5 ascending in each, and nothing else; when it returns, exactly these 74.
C5_AllMonthsSequence ==
    (call.op = "read_energy_all_months" /\ pc # "idle") =>
        /\ IsPrefix(exlog, AllMonthsExchanges)
        /\ outcome.kind = "ok" => (exlog = AllMonthsExchanges /\ returned = 74)

C5_Witness ==
    /\ call.op = "read_energy_all_months"
    /\ pc = "done"
    /\ outcome.kind = "ok"
    /\ Len(exlog) = 74
    /\ result.kind = "dict"

\* The register group a public energy operation reads first.
FirstGroup(c) ==
    CASE c.op = "read_energy_from_reset" -> 0
      [] c.op = "read_energy_for_month" -> 48 + c.x
      [] OTHER -> 49

\* C6: in a public energy operation a register exchange (0x05) is logged only
\* after open_session(0x01, 01 x 6) and then 0x08/0x12 of the same operation
\* have both returned, and every earlier exchange has returned;
\* read_energy_from_reset and read_energy_for_month then read indices 0..5 in
\* ascending order at group 0x00, respectively 0x30+month.
C6_PrepareBeforeRegisters ==
    (call.op \in {"read_energy_from_reset", "read_energy_for_month",
                  "read_energy_all_months"} /\ pc # "idle") =>
        /\ Len(exlog) <= returned + 1
        /\ \A i \in DOMAIN exlog :
              exlog[i][1] = 5 =>
                  /\ i >= 3
                  /\ returned >= 2
                  /\ exlog[1] = <<1, <<1, 1, 1, 1, 1, 1, 1>>>>
                  /\ exlog[2] = <<8, <<18>>>>
        /\ \A i \in DOMAIN exlog :
              (i >= 3 /\ i <= 8) => exlog[i] = <<5, <<FirstGroup(call), i - 3>>>>
        /\ call.op # "read_energy_all_months" => Len(exlog) <= 8
        /\ (outcome.kind = "ok" /\ call.op # "read_energy_all_months") => Len(exlog) = 8

C6_Witness ==
    /\ call.op = "read_energy_for_month"
    /\ call.x = 12
    /\ pc = "done"
    /\ outcome.kind = "ok"
    /\ exlog[8] = <<5, <<60, 5>>>>
    /\ result.kind = "EnergyFromReset"

PassportExchanges ==
    <<<<0, <<>>>>, <<1, <<2, 2, 2, 2, 2, 2, 2>>>>, <<8, <<5>>>>, <<8, <<0>>>>,
      <<8, <<3>>>>, <<8, <<2>>>>>>

\* C7: read_passport runs 0x00, 0x01 with level 0x02 and password 02 x 6,
\* 0x08/0x05, 0x08/0x00, 0x08/0x03, 0x08/0x02 in this order, each one only
\* after the one before it returned; when it returns, exactly these six.
C7_PassportSequence ==
    (call.op = "read_passport" /\ pc # "idle") =>
        /\ IsPrefix(exlog, PassportExchanges)
        /\ Len(exlog) <= returned + 1
        /\ outcome.kind = "ok" => (exlog = PassportExchanges /\ returned = 6)

C7_Witness ==
    /\ call.op = "read_passport"
    /\ pc = "done"
    /\ outcome.kind = "ok"
    /\ result.kind = "PassportData"
    /\ Len(exlog) = 6

\* C8: in read_passport and the three energy operations, an exchange is
\* started only when every earlier one returned; when an exchange fails the
\* operation ends with that failure, the failed exchange having been written
\* retries+1 times and being the last one started, and nothing is returned; a
\* value is returned only when every exchange of the sequence returned.
C8_FailureAbortsSequence ==
    (call.op \in Composite /\ pc # "idle") =>
        /\ Len(exlog) <= returned + 1
        /\ pc = "raise" => outcome.kind = "None"
        /\ (pc = "done" /\ outcome.kind \in {"NoResponse", "TransportError"}) =>
              /\ returned = Len(exlog) - 1
              /\ Writes = retries + 1
              /\ outcome = exchange_failure(last_rx, last_error, retries)
              /\ result = NoResult
        /\ (pc = "done" /\ outcome.kind = "ProtocolError") =>
              (returned = Len(exlog) /\ result = NoResult)
        /\ result.kind # "None" =>
              (outcome.kind = "ok" /\ returned = Len(Body(call)) /\ todo = <<>>)
        /\ pc # "done" => (outcome.kind = "None" /\ result = NoResult)

C8_Witness ==
    /\ call.op = "read_energy_all_months"
    /\ pc = "done"
    /\ outcome.kind = "TransportError"
    /\ retries = 2
    /\ Len(exlog) = 40
    /\ returned = 39
    /\ Len(todo) = 35
    /\ Len(acc) = 39

\* C9 (as claimed): a ProtocolError for a received frame, a too-short payload
\* included, is retried by _exchange and reaches the caller only after
\* retries+1 attempts and only inside a TransportError, never bare.
C9_ProtocolErrorsAreRetried ==
    (pc = "done" /\ outcome.reason \in {"bad crc", "unexpected address",
                                        "frame is too short", "short energy payload",
                                        "empty payload for network address"}) =>
        /\ outcome.kind = "TransportError"
        /\ Writes = retries + 1

\* The calls the claim names as having a malformed argument.
InvalidCall(c) ==
    \/ c.op = "open_session" /\ Len(c.data) # 6
    \/ c.op = "read_energy_for_month" /\ c.x \notin 1..12
    \/ c.op = "read_energy_register" /\ (c.x \notin 0..255 \/ c.y \notin 0..255)
    \/ c.op = "exchange" /\ c.x \notin 0..255

\* C10: a call with a malformed argument ends with InvalidArgument and the
\* transport sees no discard, no write and no read of it; an InvalidArgument
\* failure is never preceded by a transport operation or an attempt.
C10_InvalidArgumentBeforeTransport ==
    /\ (pc # "idle" /\ InvalidCall(call)) =>
          /\ pc \in {"next", "done"}
          /\ io = <<>> /\ exlog = <<>> /\ attempt = 0
          /\ pc = "done" => outcome.kind = "InvalidArgument"
    /\ outcome.kind = "InvalidArgument" =>
          (pc = "done" /\ io = <<>> /\ exlog = <<>> /\ attempt = 0 /\ result = NoResult)

C10_Witness ==
    /\ pc = "done"
    /\ outcome.kind = "InvalidArgument"
    /\ call.op = "read_energy_for_month"
    /\ call.x = 13
    /\ io = <<>>

----------------------------------------------------------------------------
(* The half-duplex discipline and termination of _exchange *)

\* The transport operations of one attempt, in the order of the loop body.
AttemptOps == <<"discard", "write", "read", "read">>

\* Positions of the thread of control inside _exchange.
InExchange == {"discard", "write", "read", "tail", "parse", "raise"}

\* Transport operations the current attempt has finished, by position.
OpsDone(p) ==
    CASE p = "discard" -> 0
      [] p = "write" -> 1
      [] p = "read" -> 2
      [] p = "tail" -> 3
      [] OTHER -> 4

\* C16: every attempt of an exchange performs on the transport, in this
\* order, discard, write of the request, read of the minimum length, read of
\* what is available: the operations of an exchange are a prefix of that
\* pattern repeated, so no read precedes its attempt's write and no write of
\* a later attempt precedes the two reads of the one before it; at most one
\* request is in flight.
C16_HalfDuplexOrder ==
    /\ \A i \in 1..Len(io) : io[i] = AttemptOps[((i - 1) % 4) + 1]
    /\ pc \in {"discard", "write", "read", "tail"} =>
          Len(io) = 4 * attempt + OpsDone(pc)
    /\ pc = "parse" => Len(io) = 4 * (attempt + 1)
    /\ pc = "raise" => Len(io) = 4 * attempt
    /\ pc \in InExchange => Writes <= attempt + 1

\* A third attempt has done its two reads after two attempts that failed.
C16_Witness ==
    /\ pc = "parse"
    /\ attempt = 2
    /\ io = AttemptOps \o AttemptOps \o AttemptOps

\* One step of _exchange: the client's thread runs on; a transport read
\* returns at the latest when its deadline has elapsed.
ExchangeStep ==
    /\ \/ Discard
       \/ Write
       \/ ReadHead
       \/ ReadTail
       \/ Silent
       \/ ParseOk
       \/ ParseError
       \/ Raise
    /\ UNCHANGED otherVars

\* The calls whose exchanges are followed to their end.
FairCalls ==
    {Cmd(op, 0, 0, <<>>) :
        op \in {"read_passport", "read_energy_from_reset", "test_link",
                "read_network_address"}}

NextFair ==
    \/ Call /\ call' \in FairCalls /\ UNCHANGED otherVars
    \/ Begin /\ UNCHANGED otherVars
    \/ Discard /\ UNCHANGED otherVars
    \/ Write /\ UNCHANGED otherVars
    \/ ReadHead /\ UNCHANGED otherVars
    \/ ReadTail /\ UNCHANGED otherVars
    \/ Silent /\ UNCHANGED otherVars
    \/ ParseOk /\ UNCHANGED otherVars
    \/ ParseError /\ UNCHANGED otherVars
    \/ Raise /\ UNCHANGED otherVars
    \/ Handle /\ UNCHANGED otherVars
    \/ Finish /\ UNCHANGED otherVars

\* The client under the scheduling of its single thread: a step of _exchange
\* that can be taken is taken.
FairSpec == Init /\ [][NextFair]_vars /\ WF_vars(ExchangeStep)

\* The ways _exchange ends: it returned (response command, payload), or it
\* raised MercuryNoResponseError or MercuryTransportError.
ExchangeEnded ==
    \/ pc = "returned"
    \/ pc = "done" /\ outcome.kind \in {"NoResponse", "TransportError"}

\* The step that leaves _exchange: a return before the attempts are used up,
\* or one of the two errors after the last attempt.
ExchangeLeaves ==
    pc \in InExchange /\ pc' \notin InExchange =>
        \/ pc' = "returned" /\ outcome' = Running /\ attempt <= retries
        \/ /\ pc' = "done"
           /\ outcome'.kind \in {"NoResponse", "TransportError"}
           /\ attempt = retries + 1

\* C17: every _exchange terminates, after at most retries + 1 attempts,
\* whatever the device does, and it ends in exactly one of: a returned
\* (response command, payload), NoResponse, or a general TransportError.
C17_ExchangeTerminates ==
    /\ [](pc \in InExchange => attempt <= retries + 1 /\ Writes <= retries + 1)
    /\ [][ExchangeLeaves]_vars
    /\ (pc \in InExchange) ~> ExchangeEnded

\* An exchange has used all of its attempts and ended in one of the errors.
C17_Witness ==
    /\ pc = "done"
    /\ retries = 2
    /\ attempt = 3
    /\ Writes = 3
    /\ outcome.kind \in {"NoResponse", "TransportError"}

----------------------------------------------------------------------------
(* protocol.py on its own: build_frame, parse_frame and the checksum *)

\* Longest data field a frame is built with.
MaxData == 2

\* Byte values the arguments are drawn from.
CodecBytes == {0, 1, 255}

\* Every sequence over S of length at most n.
SeqsUpTo(S, n) == UNION {[1..k -> S] : k \in 0..n}

\* A client that was constructed and is never called.
ClientOff ==
    /\ ClientInit
    /\ address = 1
    /\ retries = 0
    /\ Constructed
    /\ LineQuiet

\* build_frame is about to be called with some address, command and data.
InitCodec ==
    /\ ClientOff
    /\ TcpInit
    /\ stage = "args"
    /\ args \in [address : CodecBytes \cup {47}, command : CodecBytes \cup {8},
                 data : SeqsUpTo(CodecBytes, MaxData)]
    /\ wire = <<>>
    /\ value = <<>>

\* frame = build_frame(address, command, data)
ApplyBuild ==
    /\ stage = "args"
    /\ LET built == build_frame(args.address, args.command, args.data)
       IN  /\ value' = built
           /\ wire' = built.frame
    /\ stage' = "built"
    /\ UNCHANGED <<notPure, args>>

\* One bit of the frame's body (everything but the two checksum bytes) is
\* flipped on the line.
FlipBit ==
    /\ stage = "built"
    /\ \E i \in 1..(Len(wire) - 2), k \in 0..7 :
        wire' = [wire EXCEPT ![i] = BitXor[wire[i], 2 ^ k]]
    /\ stage' = "damaged"
    /\ UNCHANGED <<notPure, args, value>>

\* parse_frame(frame) or parse_frame(frame, expected_address=address)
ApplyParse ==
    /\ stage \in {"built", "damaged"}
    /\ \E expected \in {-1, args.address} :
        value' = [expected |-> expected, parsed |-> parse_frame(wire, expected)]
    /\ stage' = IF stage = "built" THEN "parsed" ELSE "parsed_damaged"
    /\ UNCHANGED <<notPure, args, wire>>

NextCodec ==
    \/ ApplyBuild
    \/ FlipBit
    \/ ApplyParse

SpecCodec == InitCodec /\ [][NextCodec]_vars

\* C13: for every address, command and data, parse_frame of the frame
\* build_frame made returns that address, command and data, with no expected
\* address and with the expected address equal to the address.
C13_ParseInvertsBuild ==
    stage = "parsed" =>
        /\ value.parsed.ok
        /\ value.parsed.address = args.address
        /\ value.parsed.command = args.command
        /\ value.parsed.payload = args.data

\* A frame with the longest data field was parsed against its own address.
C13_Witness ==
    /\ stage = "parsed"
    /\ args.address = 255
    /\ value.expected = 255
    /\ args.data = <<1, 255>>
    /\ Len(wire) = 6

\* The messages of the MercuryProtocolError parse_frame raises.
ParseErrors == {"frame is too short", "bad crc", "unexpected address"}

\* C14: a frame of build_frame with one bit of its body flipped is rejected
\* by parse_frame with a ProtocolError, never parsed into different fields.
C14_SingleBitFlipRejected ==
    stage = "parsed_damaged" =>
        /\ ~value.parsed.ok
        /\ value.parsed.error \in ParseErrors

\* A frame whose address byte lost its top bit was parsed with no expected
\* address.
C14_Witness ==
    /\ stage = "parsed_damaged"
    /\ value.expected = -1
    /\ args.address = 255
    /\ wire[1] = 127
    /\ Len(args.data) = 1

----------------------------------------------------------------------------
(* client.py on its own: _decode_energy_value *)

\* Longest block _decode_energy_value is given.
MaxBlock == 5

\* Response commands and block bytes the arguments are drawn from.
DecodeCmds == {0, 1, 5, 255}

DecodeBytes == {0, 1, 255}

\* _decode_energy_value is about to be called.
InitDecode ==
    /\ ClientOff
    /\ TcpInit
    /\ stage = "args"
    /\ args \in [response_cmd : DecodeCmds, block : SeqsUpTo(DecodeBytes, MaxBlock)]
    /\ wire = <<>>
    /\ value = <<>>

\* self._decode_energy_value(response_cmd, block)
ApplyDecode ==
    /\ stage = "args"
    /\ value' = decode_energy_value(args.response_cmd, args.block)
    /\ stage' = "decoded"
    /\ UNCHANGED <<notPure, args, wire>>

NextDecode == ApplyDecode

SpecDecode == InitDecode /\ [][NextDecode]_vars

\* C15: a block of four bytes decodes by the first rule that applies:
\* response command 0 and all bytes zero give 0; response command 0 with
\* bytes 0 and 1 zero and byte 3 not 0xFF give byte 3 as the high and byte 2
\* as the low byte; anything else gives the response command as the top
\* byte over byte 2 over byte 1.  A block of another length is a
\* ProtocolError.
C15_DecodeEnergyRules ==
    stage = "decoded" =>
        LET rc == args.response_cmd
            b == args.block
        IN  IF Len(b) # 4
            THEN ~value.ok /\ value.error = "energy block must contain 4 bytes"
            ELSE /\ value.ok
                 /\ IF rc = 0 /\ b = <<0, 0, 0, 0>>
                    THEN value.value = 0
                    ELSE IF rc = 0 /\ b[1] = 0 /\ b[2] = 0 /\ b[4] # 255
                    THEN /\ value.value \div 256 = b[4]
                         /\ value.value % 256 = b[3]
                    ELSE /\ value.value \div 65536 = rc
                         /\ (value.value \div 256) % 256 = b[3]
                         /\ value.value % 256 = b[2]

\* Response command 0, bytes 0 and 1 zero, byte 3 equal to 0xFF: the third
\* rule decided, not the second.
C15_Witness ==
    /\ stage = "decoded"
    /\ args.response_cmd = 0
    /\ args.block = <<0, 0, 1, 255>>
    /\ value.ok
    /\ value.value = 256

----------------------------------------------------------------------------
(* client.py: _TcpTransparentTransport on its own *)

\* A byte is known by its place in the stream the socket receives: byte n is
\* the n-th byte that reached the socket.

\* Length of the stream the socket receives.
MaxStream == 4

\* Largest size a read is called with.
MaxRead == 3

\* self._sock.recv(4096)
RecvSize == 4096

\* Mutant: everything buffered goes to out.
take_all(want, have) == have

\* take = min(size - len(out), len(self._rx_buffer))
take_size(want, have) == IF want < have THEN want ELSE have

\* Nothing else goes on while the transport is looked at on its own.
InitTcp ==
    /\ ClientOff
    /\ PureOff
    /\ TcpInit

\* The next byte of the stream reaches the socket.
Arrive ==
    /\ sent < MaxStream
    /\ sent' = sent + 1
    /\ sock' = Append(sock, sent + 1)
    /\ UNCHANGED <<notTcp, rx_buffer, tpc, size, out, given, taken, mark, last>>

\* Mutant: reset_input_buffer clears the buffer and returns; the socket is
\* not drained.
ResetCall_clear_only ==
    /\ tpc = "idle"
    /\ rx_buffer' = <<>>
    /\ mark' = sent
    /\ given' = <<>>
    /\ taken' = <<>>
    /\ last' = [op |-> "reset_input_buffer", ret |-> <<>>, n |-> 0]
    /\ UNCHANGED <<notTcp, sock, sent, tpc, size, out>>

\* reset_input_buffer is called: self._rx_buffer.clear(), then the drain.
ResetCall ==
    /\ tpc = "idle"
    /\ rx_buffer' = <<>>
    /\ mark' = sent
    /\ tpc' = "reset_drain"
    /\ UNCHANGED <<notTcp, sock, sent, size, out, given, taken, last>>

\* in_waiting is read: the drain, then len(self._rx_buffer).
InWaitingCall ==
    /\ tpc = "idle"
    /\ tpc' = "in_waiting_drain"
    /\ UNCHANGED <<notTcp, sock, rx_buffer, sent, size, out, given, taken, mark, last>>

\* _drain_socket_nonblocking: chunk = self._sock.recv(4096) got bytes.
DrainRecv ==
    /\ tpc \in {"reset_drain", "in_waiting_drain"}
    /\ sock # <<>>
    /\ LET chunk == Take(sock, RecvSize)
       IN  /\ rx_buffer' = rx_buffer \o chunk
           /\ taken' = taken \o chunk
           /\ sock' = Drop(sock, RecvSize)
    /\ UNCHANGED <<notTcp, sent, tpc, size, out, given, mark, last>>

\* _drain_socket_nonblocking: recv raised BlockingIOError, nothing is ready;
\* reset_input_buffer clears the buffer once more and returns.
ResetReturn ==
    /\ tpc = "reset_drain"
    /\ sock = <<>>
    /\ rx_buffer' = <<>>
    /\ given' = <<>>
    /\ taken' = <<>>
    /\ last' = [op |-> "reset_input_buffer", ret |-> <<>>, n |-> 0]
    /\ tpc' = "idle"
    /\ UNCHANGED <<notTcp, sock, sent, size, out, mark>>

\* _drain_socket_nonblocking: recv raised BlockingIOError; in_waiting returns
\* len(self._rx_buffer).
InWaitingReturn ==
    /\ tpc = "in_waiting_drain"
    /\ sock = <<>>
    /\ last' = [op |-> "in_waiting", ret |-> <<>>, n |-> Len(rx_buffer)]
    /\ tpc' = "idle"
    /\ UNCHANGED <<notTcp, sock, rx_buffer, sent, size, out, given, taken, mark>>

\* read(size) is called; size <= 0 returns b"" at once.
ReadCall ==
    /\ tpc = "idle"
    /\ \E n \in 0..MaxRead :
        /\ size' = n
        /\ IF n <= 0
           THEN /\ last' = [op |-> "read", ret |-> <<>>, n |-> n]
                /\ tpc' = "idle"
           ELSE /\ tpc' = "read"
                /\ UNCHANGED last
    /\ out' = <<>>
    /\ UNCHANGED <<notTcp, sock, rx_buffer, sent, given, taken, mark>>

\* read: the buffer holds bytes, some of them go to out.
ReadTake ==
    /\ tpc = "read"
    /\ Len(out) < size
    /\ rx_buffer # <<>>
    /\ LET take == take_size(size - Len(out), Len(rx_buffer))
       IN  /\ out' = out \o Take(rx_buffer, take)
           /\ rx_buffer' = Drop(rx_buffer, take)
    /\ UNCHANGED <<notTcp, sock, sent, tpc, size, given, taken, mark, last>>

\* read: the buffer is empty and recv returns a chunk before the deadline.
ReadRecv ==
    /\ tpc = "read"
    /\ Len(out) < size
    /\ rx_buffer = <<>>
    /\ sock # <<>>
    /\ LET chunk == Take(sock, RecvSize)
       IN  /\ rx_buffer' = chunk
           /\ taken' = taken \o chunk
           /\ sock' = Drop(sock, RecvSize)
    /\ UNCHANGED <<notTcp, sent, tpc, size, out, given, mark, last>>

\* read returns out: it has size bytes, or the buffer is empty and the
\* deadline has passed, recv timed out, or recv returned no bytes.
ReadReturn ==
    /\ tpc = "read"
    /\ Len(out) >= size \/ rx_buffer = <<>>
    /\ given' = given \o out
    /\ last' = [op |-> "read", ret |-> out, n |-> size]
    /\ out' = <<>>
    /\ tpc' = "idle"
    /\ UNCHANGED <<notTcp, sock, rx_buffer, sent, size, taken, mark>>

NextTcp ==
    \/ Arrive
    \/ ResetCall
    \/ InWaitingCall
    \/ DrainRecv
    \/ ResetReturn
    \/ InWaitingReturn
    \/ ReadCall
    \/ ReadTake
    \/ ReadRecv
    \/ ReadReturn

SpecTcp == InitTcp /\ [][NextTcp]_vars

\* Every byte the transport holds or has handed out since the last reset.
Held == sock \o rx_buffer \o out \o given

\* C18: what the transport's input held when an attempt started, in the
\* internal buffer or ready in the socket, is never among the bytes that
\* attempt reads: when reset_input_buffer has returned the buffer is empty,
\* and until the next reset every byte buffered, ready or returned by a read
\* reached the socket after that reset was called.
C18_DiscardDropsWhatWasThere ==
    /\ last.op = "reset_input_buffer" /\ tpc = "idle" => rx_buffer = <<>>
    /\ tpc # "reset_drain" => \A i \in 1..Len(Held) : Held[i] > mark

\* Two bytes were there when the reset was called; the read after it
\* returned the two that came later.
C18_Witness ==
    /\ tpc = "idle"
    /\ mark = 2
    /\ last.op = "read"
    /\ last.ret = <<3, 4>>

\* C19: with no reset in between, each read(size) returns at most size
\* bytes; the bytes the reads returned followed by the buffer are, in order,
\* the bytes taken from the socket; what a read did not ask for stays in the
\* buffer and in_waiting counts it.
C19_ReadsConserveTheStream ==
    /\ last.op = "read" => Len(last.ret) <= last.n
    /\ tpc \in {"idle", "in_waiting_drain"} => given \o rx_buffer = taken
    /\ tpc = "read" => given \o out \o rx_buffer = taken
    /\ last.op = "in_waiting" /\ tpc = "idle" =>
          /\ last.n = Len(rx_buffer)
          /\ last.n = Len(taken) - Len(given)
    /\ tpc # "reset_drain" =>
          \A i \in 1..(Len(taken) - 1) : taken[i + 1] = taken[i] + 1

\* A read of two bytes found three: it returned two and one stays buffered.
C19_Witness ==
    /\ tpc = "idle"
    /\ last.op = "read"
    /\ last.n = 2
    /\ last.ret = <<1, 2>>
    /\ rx_buffer = <<3>>
    /\ taken = <<1, 2, 3>>

----------------------------------------------------------------------------
(* The client in a with block, on a transport whose calls can fail *)

\* The transport method the thread is in, by position.
IoOp(p) ==
    CASE p = "discard" -> "reset_input_buffer"
      [] p = "write" -> "write"
      [] OTHER -> "read"

IoOps == {"reset_input_buffer", "write", "read"}

\* The calls made inside the with block.
WithCalls ==
    {Cmd(op, 0, 0, <<>>) :
        op \in {"read_passport", "read_energy_from_reset", "test_link"}}

\* A call that ended by raising: the exception is leaving the with block.
Raised == outcome.kind \notin {"None", "ok"}

\* with meter: __enter__ returns self.
Enter ==
    /\ scope = "constructed"
    /\ scope' = "inside"
    /\ UNCHANGED <<clientVars, pureVars, tcpVars, lateVars, handle, closes>>

\* The next statement of the block calls a method of the client.
CallInside ==
    /\ scope = "inside"
    /\ ~Raised
    /\ Call
    /\ call' \in WithCalls
    /\ UNCHANGED otherVars

\* A method of the transport raises (OSError of the socket, SerialException
\* of the serial port); _exchange has no handler for it, so it leaves
\* _exchange and the call as it is.
IoFail ==
    /\ pc \in {"discard", "write", "read", "tail"}
    /\ outcome' = Outcome("OSError", IoOp(pc), <<>>, 0)
    /\ pc' = "done"
    /\ UNCHANGED <<address, retries, call, todo, acc, exchangeVars, ret, inbuf,
                   io, heard, exlog, returned, result, otherVars>>

\* Mutant: __exit__ closes the transport only when no exception is leaving.
Exit_unless_raised ==
    /\ scope = "inside"
    /\ pc \in {"idle", "done"}
    /\ scope' = "exited"
    /\ IF Raised
       THEN UNCHANGED <<handle, closes>>
       ELSE handle' = "closed" /\ closes' = closes + 1
    /\ UNCHANGED <<clientVars, pureVars, tcpVars, lateVars>>

\* The block is left, at its end or by an exception: __exit__ calls
\* self.close(), which calls self._io.close().
Exit ==
    /\ scope = "inside"
    /\ pc \in {"idle", "done"}
    /\ scope' = "exited"
    /\ handle' = "closed"
    /\ closes' = closes + 1
    /\ UNCHANGED <<clientVars, pureVars, tcpVars, lateVars>>

NextWith ==
    \/ Enter
    \/ CallInside
    \/ Begin /\ UNCHANGED otherVars
    \/ Discard /\ UNCHANGED otherVars
    \/ Write /\ UNCHANGED otherVars
    \/ ReadHead /\ UNCHANGED otherVars
    \/ ReadTail /\ UNCHANGED otherVars
    \/ Silent /\ UNCHANGED otherVars
    \/ ParseOk /\ UNCHANGED otherVars
    \/ ParseError /\ UNCHANGED otherVars
    \/ Raise /\ UNCHANGED otherVars
    \/ Handle /\ UNCHANGED otherVars
    \/ Finish /\ UNCHANGED otherVars
    \/ IoFail
    \/ Exit

SpecWith == Init /\ [][NextWith]_vars

\* C11: a failure the transport raises during an exchange, in the discard,
\* the write or either read, reaches the caller of _exchange as the general
\* TransportError.
C11_IoFailureIsTransportError ==
    pc = "done" /\ outcome.reason \in IoOps => outcome.kind = "TransportError"

\* C12: a client used as a scoped resource has its transport handle closed
\* exactly once on every way out of the scope, the ones taken by an exchange
\* that raised in the middle of a sequence included: the handle is open and
\* was never closed up to the exit, the exit is the one step left to a block
\* whose call raised, and after the exit the handle is closed and was closed
\* once.
C12_ClosedExactlyOnce ==
    /\ scope \in {"constructed", "inside"} => handle = "open" /\ closes = 0
    /\ scope = "inside" /\ pc = "done" /\ Raised =>
          ENABLED Exit /\ ~ENABLED CallInside
    /\ scope = "exited" => handle = "closed" /\ closes = 1

\* The second exchange of a sequence raised and the block was left.
C12_Witness ==
    /\ scope = "exited"
    /\ closes = 1
    /\ call.op = "read_energy_from_reset"
    /\ returned = 1
    /\ outcome.kind \in {"NoResponse", "TransportError", "ProtocolError"}

----------------------------------------------------------------------------
(* The client on a line that can hold a reply back *)

\* What the with block and the functions on their own do not touch here.
notLine == <<pureVars, tcpVars, scopeVars>>

\* The calls made on the slow line.
LateCalls ==
    {Cmd(op, 0, 0, <<>>) :
        op \in {"test_link", "read_info_block", "read_software_version"}}

\* Replies on their way when a new request is written answer earlier ones.
Aged(replies) == [i \in DOMAIN replies |-> [replies[i] EXCEPT !.stale = TRUE]]

\* A public method is called.
CallLate ==
    /\ Call
    /\ call' \in LateCalls
    /\ UNCHANGED <<notLine, lateVars>>

\* self._io.reset_input_buffer() drops whatever has arrived.
DiscardLate ==
    /\ Discard
    /\ stale_in' = FALSE
    /\ UNCHANGED <<notLine, inflight, stale_rx>>

\* self._io.write(tx), and the reply, if any, arrives before the reads.
WriteAnswered ==
    /\ Write
    /\ inflight' = Aged(inflight)
    /\ stale_in' = (stale_in \/ inbuf # <<>>)
    /\ UNCHANGED <<notLine, stale_rx>>

\* self._io.write(tx), and the meter's answer is held back on the line
\* (a slow meter, a tunnel that buffers).
WriteDelayed ==
    /\ pc = "write"
    /\ inflight = <<>>
    /\ inflight' = <<[bytes |-> AnswerFrame[address][MeterAnswer(tx)],
                      stale |-> FALSE]>>
    /\ stale_in' = (stale_in \/ inbuf # <<>>)
    /\ io' = Append(io, "write")
    /\ pc' = "read"
    /\ UNCHANGED <<address, retries, call, todo, acc, exchangeVars, ret, inbuf,
                   heard, exlog, returned, outcome, result, notLine, stale_rx>>

\* A reply that was held back reaches the transport's input.
Deliver ==
    /\ inflight # <<>>
    /\ inbuf' = inbuf \o Head(inflight).bytes
    /\ stale_in' = (stale_in \/ Head(inflight).stale)
    /\ inflight' = Tail(inflight)
    /\ UNCHANGED <<address, retries, pc, call, todo, acc, exchangeVars, ret,
                   io, heard, exlog, returned, outcome, result, notLine,
                   stale_rx>>

\* rx = self._io.read(min_response)
ReadHeadLate ==
    /\ ReadHead
    /\ stale_rx' = (stale_in /\ inbuf # <<>>)
    /\ stale_in' = (stale_in /\ Len(inbuf) > 4)
    /\ UNCHANGED <<notLine, inflight>>

\* rx += self._io.read(self._io.in_waiting)
ReadTailLate ==
    /\ ReadTail
    /\ stale_rx' = (stale_rx \/ (stale_in /\ inbuf # <<>>))
    /\ stale_in' = FALSE
    /\ UNCHANGED <<notLine, inflight>>

NextLate ==
    \/ CallLate
    \/ Begin /\ UNCHANGED otherVars
    \/ DiscardLate
    \/ WriteAnswered
    \/ WriteDelayed
    \/ Deliver
    \/ ReadHeadLate
    \/ ReadTailLate
    \/ Silent /\ UNCHANGED otherVars
    \/ ParseOk /\ UNCHANGED otherVars
    \/ ParseError /\ UNCHANGED otherVars
    \/ Raise /\ UNCHANGED otherVars
    \/ Handle /\ UNCHANGED otherVars
    \/ Finish /\ UNCHANGED otherVars

SpecLate == Init /\ [][NextLate]_vars

\* C20: what an exchange returns comes from a frame the meter sent in answer
\* to the request of the attempt that returns it: the bytes that attempt
\* parsed hold nothing of a reply to an earlier request, whether that of an
\* earlier attempt or of an earlier exchange that timed out.
C20_ReturnAnswersOwnRequest ==
    pc = "returned" => ~stale_rx

----------------------------------------------------------------------------
(* The last raise of _exchange *)

\* C21: the last raise of _exchange, MercuryTransportError with the raw
\* bytes and no parse failure reason, is never reached: when the loop has
\* ended with 4 or more bytes in last_rx, last_error holds the error
\* parse_frame raised on those bytes, and the TransportError raised carries
\* it.
C21_FallbackUnreachable ==
    /\ pc = "raise" /\ Len(last_rx) >= 4 =>
          /\ last_error # ""
          /\ last_error = parse_frame(last_rx, address).error
    /\ pc = "done" /\ outcome.kind = "TransportError" =>
          /\ outcome.reason # ""
          /\ outcome.reason = parse_frame(last_rx, address).error
          /\ outcome.raw = hex(last_rx)

\* A silent attempt, then one whose frame had a bad checksum: the exchange
\* failed with the reason of the last attempt.
C21_Witness ==
    /\ pc = "done"
    /\ retries = 1
    /\ heard = {"short", "badcrc"}
    /\ Len(last_rx) >= 4
    /\ outcome.kind = "TransportError"
    /\ outcome.reason = "bad crc"

====
